---------------------------- MODULE Spec2Model ----------------------------
(***************************************************************************)
(* Model of benchmark.py: the SandboxBenchmark orchestrator (one provider  *)
(* after the other, each as `batches` rounds of `concurrent` asyncio tasks *)
(* joined by asyncio.gather), calculate_stats, and the report and snapshot *)
(* written at the end of run_benchmarks.                                   *)
(*                                                                         *)
(* Elapsed times are positive integers (clock ticks).  Values that Python  *)
(* computes as quotients (mean, median, variance, factor, percent) are     *)
(* exact rationals <<numerator, denominator>> in lowest terms, so that two *)
(* of them are equal exactly when the quotients are.                       *)
(***************************************************************************)
EXTENDS Integers, Sequences, FiniteSets

\* ------------------------------------------------------------------ bounds
\* Largest --concurrent and --batches drawn in Init.
MaxConcurrent == 2
MaxBatches == 2
\* Elapsed values an invocation may report: 1..MaxElapsed.
MaxElapsed == 2
\* Sample sequences given to calculate_stats in SpecStats: every sequence
\* over 1..MaxVal of length 0..MaxShort, and patterned sequences of every
\* length 0..MaxLen, with steps 1..MaxStep and moduli 1..MaxMod or the length.
MaxShort == 3
MaxVal == 3
MaxLen == 102
MaxStep == 2
MaxMod == 6
\* Invocations of one adapter in flight together in SpecAdapter.
MaxInvocations == 2

\* ------------------------------------------------------------- arithmetic
Abs(x) == IF x < 0 THEN -x ELSE x

RECURSIVE GCD(_, _)
GCD(a, b) == IF b = 0 THEN a ELSE GCD(b, a % b)

\* The quotient n / d (d > 0) in lowest terms.
Rat(n, d) ==
    LET g == GCD(Abs(n), d)
    IN  <<n \div g, d \div g>>

FromInt(v) == <<v, 1>>
RatLeq(x, y) == x[1] * y[2] <= y[1] * x[2]
RatLess(x, y) == x[1] * y[2] < y[1] * x[2]
RatSub(x, y) == Rat(x[1] * y[2] - y[1] * x[2], x[2] * y[2])
\* x / y for y > 0
RatDiv(x, y) == Rat(x[1] * y[2], x[2] * y[1])
RatTimesInt(x, k) == Rat(x[1] * k, x[2])

RECURSIVE Sum(_)
Sum(s) == IF s = <<>> THEN 0 ELSE Head(s) + Sum(Tail(s))

RECURSIVE SumSq(_)
SumSq(s) == IF s = <<>> THEN 0 ELSE Head(s) * Head(s) + SumSq(Tail(s))

\* ---------------------------------------------------------------- sorting
\* sorted(times): ascending, stable.
RECURSIVE InsertAsc(_, _)
InsertAsc(s, x) ==
    IF s = <<>> THEN <<x>>
    ELSE IF x < Head(s) THEN <<x>> \o s
    ELSE <<Head(s)>> \o InsertAsc(Tail(s), x)

RECURSIVE SortedAsc(_)
SortedAsc(s) ==
    IF s = <<>> THEN <<>>
    ELSE InsertAsc(SortedAsc(SubSeq(s, 1, Len(s) - 1)), s[Len(s)])

\* sorted(times, reverse=True): descending.
Reverse(s) == [i \in 1..Len(s) |-> s[Len(s) + 1 - i]]
SortedDesc(s) == Reverse(SortedAsc(s))

\* ------------------------------------------------------------- statistics
\* statistics.mean(times), times non-empty
mean(times) == Rat(Sum(times), Len(times))

\* (The sum of the two middle elements, not halved, kept for comparison.)
medianNoHalf(times) ==
    LET s == SortedAsc(times)
        n == Len(s)
    IN  IF n % 2 = 1 THEN FromInt(s[(n \div 2) + 1])
        ELSE FromInt(s[n \div 2] + s[(n \div 2) + 1])
\* statistics.median(times), times non-empty: the middle element of the
\* sorted data, or the average of the two middle elements.
median(times) ==
    LET s == SortedAsc(times)
        n == Len(s)
    IN  IF n % 2 = 1 THEN FromInt(s[(n \div 2) + 1])
        ELSE Rat(s[n \div 2] + s[(n \div 2) + 1], 2)

\* min(times), max(times), times non-empty
RECURSIVE min(_)
min(times) ==
    IF Len(times) = 1 THEN times[1]
    ELSE LET m == min(Tail(times))
         IN  IF m < Head(times) THEN m ELSE Head(times)

RECURSIVE max(_)
max(times) ==
    IF Len(times) = 1 THEN times[1]
    ELSE LET m == max(Tail(times))
         IN  IF m > Head(times) THEN m ELSE Head(times)

\* statistics.stdev(times), len(times) > 1, carried as its exact square, the
\* sample variance sum((x - mean)^2) / (n - 1).
stdev(times) ==
    LET n == Len(times)
    IN  Rat(n * SumSq(times) - Sum(times) * Sum(times), n * (n - 1))

\* int(n * 0.95) and int(n * 0.99): q is the percentage.  The double nearest
\* to 0.95 (0.99) is below it by a relative 4.7e-17 (9e-18), less than half
\* an ulp, so the product rounds to the exact integer whenever n * q / 100
\* is one and int() truncates to floor(n * q / 100) in every case.
\* (The nearest-rank index ceil(n * q / 100) - 1 is kept for comparison.)
PercentileIndexNearestRank(n, q) == ((n * q + 99) \div 100) - 1
PercentileIndex(n, q) == (n * q) \div 100

\* The dict returned for an empty list.
EmptyStatsSentinel ==
    [mean |-> FromInt(0), median |-> FromInt(0), min |-> FromInt(-1),
     max |-> FromInt(-1), std_dev |-> FromInt(0), p95 |-> FromInt(-1),
     p99 |-> FromInt(-1)]
EmptyStats ==
    [mean |-> FromInt(0), median |-> FromInt(0), min |-> FromInt(0),
     max |-> FromInt(0), std_dev |-> FromInt(0), p95 |-> FromInt(0),
     p99 |-> FromInt(0)]

\* calculate_stats(times); Python indexes from 0, sequences here from 1.
calculate_stats(times) ==
    IF times = <<>> THEN EmptyStats
    ELSE LET sorted_times == SortedAsc(times)
             n == Len(sorted_times)
         IN  [mean |-> mean(times),
              median |-> median(times),
              min |-> FromInt(min(times)),
              max |-> FromInt(max(times)),
              std_dev |-> IF Len(times) > 1 THEN stdev(times) ELSE FromInt(0),
              p95 |-> IF n > 0 THEN FromInt(sorted_times[PercentileIndex(n, 95) + 1])
                      ELSE FromInt(0),
              p99 |-> IF n > 0 THEN FromInt(sorted_times[PercentileIndex(n, 99) + 1])
                      ELSE FromInt(0)]


\* ------------------------------------------------------------ orchestrator
\* The providers in the order run_benchmarks tests them, and the key under
\* which each one's times are stored in self.results.
ProviderOrder == <<"morph", "modal", "runloop">>
Prov == {ProviderOrder[i] : i \in 1..Len(ProviderOrder)}
Key(p) == CASE p = "morph" -> "Morph"
            [] p = "modal" -> "Modal"
            [] p = "runloop" -> "Runloop"
KeyOrder == [i \in 1..Len(ProviderOrder) |-> Key(ProviderOrder[i])]

VARIABLES
    concurrent,       \* self.concurrent
    batches,          \* self.batches
    providers,        \* the providers argument of run_benchmarks, as a set
    env,              \* the providers whose credential is set in the environment
    pc,               \* where run_benchmarks (and the benchmark_* it awaits) stands
    cur,              \* index in ProviderOrder of the provider being handled
    batch_num,        \* loop variable of the running benchmark_*
    times,            \* local list `times` of the running benchmark_*
    slot,             \* every task ever created: slot[p][round][i]
    completion,       \* indices of the tasks of the latest round, as they finished
    results,          \* self.results
    warned,           \* providers for which the missing-key message was printed
    raisedBy,         \* provider whose exception left run_benchmarks, or "none"
    console,          \* what display_provider_results printed, in order
    table_columns,    \* provider columns of the iteration table
    table_rows,       \* rows of the iteration table
    summary_rows,     \* rows of the summary table
    comparison_lines, \* lines of the performance comparison
    files,            \* the snapshots written with json.dump, in order
    samples,          \* SpecStats: the list given to calculate_stats
    statistics,       \* SpecStats: what calculate_stats returned, as <<dict>>
    adapter,          \* SpecAdapter: the provider whose run_single_* runs
    inv               \* SpecAdapter: the invocations of run_single_* in flight

orchVars == <<concurrent, batches, providers, env, pc, cur, batch_num, times,
              slot, completion, results, warned, raisedBy, console, table_columns,
              table_rows, summary_rows, comparison_lines, files>>
statVars == <<samples, statistics>>
adapterVars == <<adapter, inv>>
vars == <<orchVars, statVars, adapterVars>>

\* A dict as a function on its keys; keys are always inserted in KeyOrder,
\* so the dict's iteration order is KeyOrder restricted to its keys.
EmptyDict == [k \in {} |-> <<>>]
Put(d, k, v) == [x \in DOMAIN d \cup {k} |-> IF x = k THEN v ELSE d[x]]
Keys(d) == SelectSeq(KeyOrder, LAMBDA k : k \in DOMAIN d)

\* A task of one round: created by asyncio.create_task ("running"), then
\* returning its elapsed time ("ok"), raising ("fail"), or cancelled when
\* asyncio.run shuts the loop down ("cancelled").
NoTask == [st |-> "none", elapsed |-> 0, launches |-> 0]
Resolved(t) == t.st \in {"ok", "fail", "cancelled"}

CurProv == ProviderOrder[cur]
CurRound == slot[CurProv][batch_num + 1]

\* asyncio.gather(*tasks) returns once every task has returned ...
GatherFirstCompleted(tasks) ==
    \/ DOMAIN tasks = {}
    \/ \E i \in DOMAIN tasks : tasks[i].st = "ok"
GatherReturns(tasks) == \A i \in DOMAIN tasks : tasks[i].st = "ok"
\* ... and raises as soon as one task has raised.
GatherRaises(tasks) == \E i \in DOMAIN tasks : tasks[i].st = "fail"

\* The list asyncio.gather(*tasks) returns: the tasks' values in the order
\* the tasks were passed, whatever the order they finished in.  (The values
\* in the order of completion, as asyncio.as_completed yields them, are kept
\* for comparison.)
BatchTimesAsCompleted(tasks) ==
    [j \in DOMAIN tasks |->
       IF j <= Len(completion) THEN tasks[completion[j]].elapsed ELSE 0]
BatchTimes(tasks) == [i \in DOMAIN tasks |-> tasks[i].elapsed]
\* times.extend(batch_times)
ExtendReplace(ts, batch_times) == batch_times
Extend(ts, batch_times) == ts \o batch_times

\* sorted(times) and sorted(times, reverse=True) build a new list: the list
\* passed in is afterwards what it was.  (times.sort(reverse=True), which
\* sorts the list itself, is kept for comparison.)
ListAfterSortInPlace(ts) == SortedDesc(ts)
ListAfterSorted(ts) == ts
\* display_provider_results(provider, times): what it prints.
display_provider_results(provider, ts) ==
    IF ts = <<>> THEN [provider |-> provider, no_results |-> TRUE,
                       sorted_times |-> <<>>, mean |-> FromInt(0),
                       median |-> FromInt(0), best |-> 0]
    ELSE LET sorted_times == SortedDesc(ts)
         IN  [provider |-> provider, no_results |-> FALSE,
              sorted_times |-> sorted_times, mean |-> mean(ts),
              median |-> median(ts), best |-> sorted_times[Len(sorted_times)]]

\* {k: v for k, v in self.results.items() if v}
FilterKeepAll(r) == r
FilterEmpty(r) == [k \in {x \in DOMAIN r : r[x] # <<>>} |-> r[k]]

Init ==
    /\ concurrent \in 0..MaxConcurrent
    /\ batches \in 0..MaxBatches
    /\ providers \in (SUBSET Prov) \ {{}}
    /\ env \in SUBSET Prov
    /\ pc = "select"
    /\ cur = 1
    /\ batch_num = 0
    /\ times = <<>>
    /\ slot = [p \in Prov |-> [k \in 1..batches |-> [i \in 1..concurrent |-> NoTask]]]
    /\ completion = <<>>
    /\ results = EmptyDict
    /\ warned = {}
    /\ raisedBy = "none"
    /\ console = <<>>
    /\ table_columns = <<>>
    /\ table_rows = <<>>
    /\ summary_rows = <<>>
    /\ comparison_lines = <<>>
    /\ files = <<>>
    /\ samples = <<>>
    /\ statistics = <<>>
    /\ adapter = "morph"
    /\ inv = <<>>

outVars == <<table_columns, table_rows, summary_rows, comparison_lines, files>>
cfgVars == <<concurrent, batches, providers, env>>

\* After one provider: the next `if "<p>" in providers`, or the report.
NextProvider ==
    IF cur < Len(ProviderOrder) THEN /\ cur' = cur + 1
                                     /\ pc' = "select"
    ELSE /\ cur' = cur
         /\ pc' = "report"

\* if "<p>" in providers: false, the provider is not run.
NotSelected ==
    /\ pc = "select"
    /\ CurProv \notin providers
    /\ NextProvider
    /\ UNCHANGED <<cfgVars, batch_num, times, slot, completion, results, warned, raisedBy,
                   console, outVars, statVars, adapterVars>>

\* if "<p>" in providers: true, benchmark_<p> is called: times = [].
Selected ==
    /\ pc = "select"
    /\ CurProv \in providers
    /\ pc' = "setup"
    /\ times' = <<>>
    /\ batch_num' = 0
    /\ UNCHANGED <<cfgVars, cur, slot, completion, results, warned, raisedBy, console,
                   outVars, statVars, adapterVars>>

\* benchmark_morph: MorphCloudClient() and snapshots.acreate; benchmark_modal:
\* modal.App.lookup.  Neither looks at the environment itself: the SDK does,
\* and returns a client when the credential is there.
SetupClient ==
    /\ pc = "setup"
    /\ CurProv \in {"morph", "modal"}
    /\ CurProv \in env
    /\ pc' = "batch"
    /\ UNCHANGED <<cfgVars, cur, batch_num, times, slot, completion, results, warned,
                   raisedBy, console, outVars, statVars, adapterVars>>

\* The same calls without the credential: the SDK call raises, nothing in
\* benchmark_morph, benchmark_modal, run_benchmarks or main catches it, and
\* asyncio.run ends with that exception.
SetupRaises ==
    /\ pc = "setup"
    /\ CurProv \in {"morph", "modal"}
    /\ CurProv \notin env
    /\ pc' = "aborted"
    /\ raisedBy' = CurProv
    /\ UNCHANGED <<cfgVars, cur, batch_num, times, slot, completion, results, warned,
                   console, outVars, statVars, adapterVars>>

\* benchmark_runloop with RUNLOOP_API_KEY set: AsyncRunloop(bearer_token=...).
RunloopClient ==
    /\ pc = "setup"
    /\ CurProv = "runloop"
    /\ CurProv \in env
    /\ pc' = "batch"
    /\ UNCHANGED <<cfgVars, cur, batch_num, times, slot, completion, results, warned,
                   raisedBy, console, outVars, statVars, adapterVars>>

\* benchmark_runloop without RUNLOOP_API_KEY: prints the message and returns
\* [], which run_benchmarks stores in self.results["Runloop"].
RunloopNoKey ==
    /\ pc = "setup"
    /\ CurProv = "runloop"
    /\ CurProv \notin env
    /\ warned' = warned \cup {CurProv}
    /\ results' = Put(results, Key(CurProv), <<>>)
    /\ NextProvider
    /\ UNCHANGED <<cfgVars, batch_num, times, slot, completion, raisedBy, console, outVars,
                   statVars, adapterVars>>

\* One pass of `for batch_num in range(self.batches)` up to the await:
\* asyncio.create_task for each of the `concurrent` invocations.
Launch ==
    /\ pc = "batch"
    /\ batch_num < batches
    /\ slot' = [slot EXCEPT ![CurProv][batch_num + 1] =
                  [i \in 1..concurrent |->
                     [st |-> "running", elapsed |-> 0,
                      launches |-> @[i].launches + 1]]]
    /\ completion' = <<>>
    /\ pc' = "gather"
    /\ UNCHANGED <<cfgVars, cur, batch_num, times, results, warned, raisedBy,
                   console, outVars, statVars, adapterVars>>

\* run_single_*_sandbox of task i returns its elapsed time.
TaskReturns(i) ==
    /\ pc = "gather"
    /\ CurRound[i].st = "running"
    /\ \E e \in 1..MaxElapsed :
         slot' = [slot EXCEPT ![CurProv][batch_num + 1][i] =
                    [@ EXCEPT !.st = "ok", !.elapsed = e]]
    /\ completion' = Append(completion, i)
    /\ UNCHANGED <<cfgVars, pc, cur, batch_num, times, results, warned,
                   raisedBy, console, outVars, statVars, adapterVars>>

\* run_single_*_sandbox of task i raises; a retrying variant for comparison.
TaskRaisesRetry(i) ==
    /\ pc = "gather"
    /\ CurRound[i].st = "running"
    /\ slot' = [slot EXCEPT ![CurProv][batch_num + 1][i] =
                  [@ EXCEPT !.launches = @ + 1]]
    /\ UNCHANGED completion
    /\ UNCHANGED <<cfgVars, pc, cur, batch_num, times, results, warned,
                   raisedBy, console, outVars, statVars, adapterVars>>
TaskRaises(i) ==
    /\ pc = "gather"
    /\ CurRound[i].st = "running"
    /\ slot' = [slot EXCEPT ![CurProv][batch_num + 1][i] = [@ EXCEPT !.st = "fail"]]
    /\ completion' = Append(completion, i)
    /\ UNCHANGED <<cfgVars, pc, cur, batch_num, times, results, warned,
                   raisedBy, console, outVars, statVars, adapterVars>>

\* batch_times = await asyncio.gather(*tasks) returns the tasks' values in
\* task order; the batch is printed and times.extend(batch_times).
GatherReturn ==
    /\ pc = "gather"
    /\ GatherReturns(CurRound)
    /\ LET batch_times == BatchTimes(CurRound)
       IN  times' = Extend(times, batch_times)
    /\ batch_num' = batch_num + 1
    /\ pc' = "batch"
    /\ UNCHANGED <<cfgVars, cur, slot, completion, results, warned, raisedBy, console,
                   outVars, statVars, adapterVars>>

\* await asyncio.gather(*tasks) raises the first exception of a task.  It
\* passes through benchmark_*, run_benchmarks and main uncaught; asyncio.run
\* then cancels the tasks that are still running and re-raises.
GatherRaiseContinue ==
    /\ pc = "gather"
    /\ GatherRaises(CurRound)
    /\ results' = Put(results, Key(CurProv), <<>>)
    /\ NextProvider
    /\ UNCHANGED <<cfgVars, batch_num, times, slot, completion, warned, raisedBy, console,
                   outVars, statVars, adapterVars>>
GatherRaise ==
    /\ pc = "gather"
    /\ GatherRaises(CurRound)
    /\ slot' = [slot EXCEPT ![CurProv][batch_num + 1] =
                  [i \in 1..concurrent |->
                     IF @[i].st = "running" THEN [@[i] EXCEPT !.st = "cancelled"]
                     ELSE @[i]]]
    /\ pc' = "aborted"
    /\ raisedBy' = CurProv
    /\ UNCHANGED <<cfgVars, cur, batch_num, times, completion, results, warned,
                   console, outVars, statVars, adapterVars>>

\* The loop is over: display_provider_results, return times, and
\* self.results["<Key>"] = the returned list.
ReturnTimes ==
    /\ pc = "batch"
    /\ batch_num >= batches
    /\ console' = Append(console, display_provider_results(Key(CurProv), times))
    /\ results' = Put(results, Key(CurProv), ListAfterSorted(times))
    /\ NextProvider
    /\ UNCHANGED <<cfgVars, batch_num, times, slot, completion, warned, raisedBy, outVars,
                   statVars, adapterVars>>

\* ------------------------------------------------------------------ report
\* sorted(stats.items(), key=lambda x: x[1]["mean"]): stable, so providers of
\* equal mean keep the dict's order.
RECURSIVE InsertByMean(_, _, _)
InsertByMean(s, k, stats) ==
    IF s = <<>> THEN <<k>>
    ELSE IF RatLess(stats[k].mean, stats[Head(s)].mean) THEN <<k>> \o s
    ELSE <<Head(s)>> \o InsertByMean(Tail(s), k, stats)

RECURSIVE SortByMean(_, _)
SortByMean(ks, stats) ==
    IF ks = <<>> THEN <<>>
    ELSE InsertByMean(SortByMean(SubSeq(ks, 1, Len(ks) - 1), stats),
                      ks[Len(ks)], stats)


\* (A table of the lists in the order they were collected, without the sort,
\* is kept for comparison.)
IterationRowsUnsorted(r, total_runs) ==
    LET ks == Keys(r)
    IN  [i \in 1..total_runs |->
           [c \in 1..Len(ks) |->
              IF i - 1 < Len(r[ks[c]]) THEN <<r[ks[c]][i]>> ELSE <<>>]]
\* The iteration table: one row per i in range(total_runs), one cell per
\* provider of self.results; <<v>> is a printed value, <<>> the "-".
IterationRows(r, total_runs) ==
    LET ks == Keys(r)
        sorted_results == [k \in DOMAIN r |-> SortedDesc(r[k])]
    IN  [i \in 1..total_runs |->
           [c \in 1..Len(ks) |->
              IF i - 1 < Len(sorted_results[ks[c]])
              THEN <<sorted_results[ks[c]][i]>>
              ELSE <<>>]]

\* The summary table: cold start, best, mean, median per provider; <<v>> is a
\* printed value, <<>> the "-" printed for an empty list.
SummaryRows(r, stats) ==
    LET ks == Keys(r)
    IN  [c \in 1..Len(ks) |->
           LET sorted_times == SortedDesc(r[ks[c]])
           IN  [provider |-> ks[c],
                cold_start |-> IF sorted_times # <<>> THEN <<sorted_times[1]>>
                               ELSE <<>>,
                best |-> IF sorted_times # <<>>
                         THEN <<sorted_times[Len(sorted_times)]>> ELSE <<>>,
                mean |-> stats[ks[c]].mean,
                median |-> stats[ks[c]].median]]


\* (A comparison against the first provider of the dict, without the sort,
\* is kept for comparison.)
ComparisonLinesUnsorted(stats) ==
    IF Cardinality(DOMAIN stats) > 1
    THEN LET ks == Keys(stats)
         IN  [j \in 1..(Len(ks) - 1) |->
                [provider |-> ks[j + 1],
                 base_provider |-> ks[1],
                 factor |-> RatDiv(stats[ks[j + 1]].mean, stats[ks[1]].mean),
                 percent |-> RatTimesInt(
                     RatDiv(RatSub(stats[ks[j + 1]].mean, stats[ks[1]].mean),
                            stats[ks[1]].mean), 100)]]
    ELSE <<>>
\* The performance comparison, printed when len(stats) > 1.
ComparisonLines(stats) ==
    IF Cardinality(DOMAIN stats) > 1
    THEN LET providers_sorted == SortByMean(Keys(stats), stats)
             base_provider == providers_sorted[1]
             base_stats == stats[base_provider]
         IN  [j \in 1..(Len(providers_sorted) - 1) |->
                LET provider == providers_sorted[j + 1]
                    diff == RatSub(stats[provider].mean, base_stats.mean)
                IN  [provider |-> provider,
                     base_provider |-> base_provider,
                     factor |-> RatDiv(stats[provider].mean, base_stats.mean),
                     percent |-> RatTimesInt(RatDiv(diff, base_stats.mean), 100)]]
    ELSE <<>>

\* (raw_times taken from self.results as it was before the empty lists were
\* filtered out, kept for comparison.)
OutputDataUnfiltered(r, stats) ==
    [config |-> [concurrent |-> concurrent, batches |-> batches,
                 total_runs |-> concurrent * batches],
     raw_times |-> results,
     statistics |-> stats]
\* output_data of run_benchmarks (the timestamp left out).
OutputData(r, stats) ==
    [config |-> [concurrent |-> concurrent, batches |-> batches,
                 total_runs |-> concurrent * batches],
     raw_times |-> r,
     statistics |-> stats]

\* The rest of run_benchmarks, which awaits nothing: filter the empty
\* results; with nothing left print the failure and return; else print the
\* iteration table, the summary, the comparison and write the snapshot.
Report ==
    /\ pc = "report"
    /\ LET kept == FilterEmpty(results)
           stats == [k \in DOMAIN kept |-> calculate_stats(kept[k])]
           filtered == [k \in DOMAIN kept |-> ListAfterSorted(kept[k])]
       IN  /\ results' = filtered
           /\ IF DOMAIN filtered = {}
              THEN UNCHANGED outVars
              ELSE /\ table_columns' = Keys(filtered)
                   /\ table_rows' = IterationRows(filtered, concurrent * batches)
                   /\ summary_rows' = SummaryRows(filtered, stats)
                   /\ comparison_lines' = ComparisonLines(stats)
                   /\ files' = Append(files, OutputData(filtered, stats))
    /\ pc' = "done"
    /\ UNCHANGED <<cfgVars, cur, batch_num, times, slot, completion, warned, raisedBy,
                   console, statVars, adapterVars>>

Next ==
    \/ NotSelected
    \/ Selected
    \/ SetupClient
    \/ SetupRaises
    \/ RunloopClient
    \/ RunloopNoKey
    \/ Launch
    \/ \E i \in 1..concurrent : TaskReturns(i)
    \/ \E i \in 1..concurrent : TaskRaises(i)
    \/ GatherReturn
    \/ GatherRaise
    \/ ReturnTimes
    \/ Report

Spec == Init /\ [][Next]_vars

\* ------------------------------------------------ calculate_stats on its own
\* The lists calculate_stats is applied to: every list over 1..MaxVal of
\* length up to MaxShort, and for every length n up to MaxLen the lists
\* (((i - 1) * step) % m) + 1: unsorted lists with repeated values for the
\* small moduli, and for m = n lists of up to n distinct values.
RECURSIVE SeqsUpTo(_, _)
SeqsUpTo(S, n) ==
    IF n = 0 THEN {<<>>}
    ELSE LET shorter == SeqsUpTo(S, n - 1)
         IN  shorter \cup {Append(s, x) : s \in {t \in shorter : Len(t) = n - 1}, x \in S}

Pattern(n, step, m) == [i \in 1..n |-> (((i - 1) * step) % m) + 1]

SampleInputs ==
    SeqsUpTo(1..MaxVal, MaxShort)
    \cup UNION {{Pattern(n, step, m) : step \in 1..MaxStep,
                                        m \in (1..MaxMod) \cup {n}} : n \in 1..MaxLen}

InitStats ==
    /\ samples \in SampleInputs
    /\ statistics = <<>>
    /\ adapter = "morph"
    /\ inv = <<>>
    /\ concurrent = 0
    /\ batches = 0
    /\ providers = {}
    /\ env = {}
    /\ pc = "stats"
    /\ cur = 1
    /\ batch_num = 0
    /\ times = <<>>
    /\ slot = [p \in Prov |-> <<>>]
    /\ completion = <<>>
    /\ results = EmptyDict
    /\ warned = {}
    /\ raisedBy = "none"
    /\ console = <<>>
    /\ table_columns = <<>>
    /\ table_rows = <<>>
    /\ summary_rows = <<>>
    /\ comparison_lines = <<>>
    /\ files = <<>>

\* stats = self.calculate_stats(times)
Compute ==
    /\ pc = "stats"
    /\ statistics = <<>>
    /\ statistics' = <<calculate_stats(samples)>>
    /\ UNCHANGED <<samples, orchVars, adapterVars>>

NextStats == Compute

SpecStats == InitStats /\ [][NextStats]_vars

\* ------------------------------------------------- one adapter invocation
\* The awaited calls of run_single_<p>_sandbox in source order, each with the
\* lifecycle stages that are complete when it has returned.  For Modal the
\* sandbox is created with its command and sandbox.wait returns when the
\* command has finished, which ends the sandbox: there is no separate
\* readiness or teardown call.
AdapterCalls(p) ==
    CASE p = "morph" ->
           <<[call |-> "client.instances.astart", completes |-> <<"provision">>],
             [call |-> "instance.await_until_ready", completes |-> <<"ready">>],
             [call |-> "instance.assh", completes |-> <<>>],
             [call |-> "ssh.arun(echo)", completes |-> <<>>],
             [call |-> "ssh.arun(python3)", completes |-> <<"execute">>],
             [call |-> "instance.astop", completes |-> <<"teardown">>]>>
      [] p = "modal" ->
           <<[call |-> "modal.Sandbox.create", completes |-> <<"provision">>],
             [call |-> "sandbox.wait",
              completes |-> <<"ready", "execute", "teardown">>],
             [call |-> "sandbox.stdout.read", completes |-> <<>>]>>
      [] p = "runloop" ->
           <<[call |-> "client.devboxes.create_and_await_running",
              completes |-> <<"provision", "ready">>],
             [call |-> "client.devboxes.execute", completes |-> <<"execute">>],
             [call |-> "client.devboxes.shutdown", completes |-> <<"teardown">>]>>

\* An invocation: the number of calls that have returned, the stages
\* completed, whether it holds a sandbox, how it ended, and the value it
\* returned (0: none).
NewInvocation ==
    [step |-> 0, stages |-> <<>>, acquired |-> FALSE, outcome |-> "running",
     value |-> 0]

\* The sandbox is held from the end of provisioning to the end of teardown.
HeldAfter(held, completes) ==
    IF \E k \in DOMAIN completes : completes[k] = "teardown" THEN FALSE
    ELSE IF \E k \in DOMAIN completes : completes[k] = "provision" THEN TRUE
    ELSE held

InitAdapter ==
    /\ adapter \in Prov
    /\ \E n \in 1..MaxInvocations : inv = [i \in 1..n |-> NewInvocation]
    /\ samples = <<>>
    /\ statistics = <<>>
    /\ concurrent = 0
    /\ batches = 0
    /\ providers = {}
    /\ env = {}
    /\ pc = "adapter"
    /\ cur = 1
    /\ batch_num = 0
    /\ times = <<>>
    /\ slot = [p \in Prov |-> <<>>]
    /\ completion = <<>>
    /\ results = EmptyDict
    /\ warned = {}
    /\ raisedBy = "none"
    /\ console = <<>>
    /\ table_columns = <<>>
    /\ table_rows = <<>>
    /\ summary_rows = <<>>
    /\ comparison_lines = <<>>
    /\ files = <<>>

\* The next awaited call of invocation i returns.
CallReturns(i) ==
    /\ pc = "adapter"
    /\ inv[i].outcome = "running"
    /\ inv[i].step < Len(AdapterCalls(adapter))
    /\ LET c == AdapterCalls(adapter)[inv[i].step + 1]
       IN  inv' = [inv EXCEPT ![i] =
                     [@ EXCEPT !.step = @ + 1,
                               !.stages = @ \o c.completes,
                               !.acquired = HeldAfter(@, c.completes)]]
    /\ UNCHANGED <<adapter, orchVars, statVars>>

\* The next awaited call of invocation i raises: run_single_* has no try,
\* except or finally, so the exception ends the invocation there.  (An
\* except-and-continue is kept for comparison.)
CallRaisesSwallowed(i) ==
    /\ pc = "adapter"
    /\ inv[i].outcome = "running"
    /\ inv[i].step < Len(AdapterCalls(adapter))
    /\ inv' = [inv EXCEPT ![i] = [@ EXCEPT !.step = @ + 1]]
    /\ UNCHANGED <<adapter, orchVars, statVars>>
CallRaises(i) ==
    /\ pc = "adapter"
    /\ inv[i].outcome = "running"
    /\ inv[i].step < Len(AdapterCalls(adapter))
    /\ inv' = [inv EXCEPT ![i] = [@ EXCEPT !.outcome = "fail"]]
    /\ UNCHANGED <<adapter, orchVars, statVars>>

\* elapsed = time.perf_counter() - start; return elapsed
ReturnElapsed(i) ==
    /\ pc = "adapter"
    /\ inv[i].outcome = "running"
    /\ inv[i].step = Len(AdapterCalls(adapter))
    /\ \E e \in 1..MaxElapsed :
         inv' = [inv EXCEPT ![i] = [@ EXCEPT !.outcome = "ok", !.value = e]]
    /\ UNCHANGED <<adapter, orchVars, statVars>>

\* After an invocation has raised, gather raises, the exception leaves main,
\* and asyncio.run cancels the invocations still in flight where they wait.
ShutdownCancels ==
    /\ pc = "adapter"
    /\ \E j \in DOMAIN inv : inv[j].outcome = "fail"
    /\ \E i \in DOMAIN inv : inv[i].outcome = "running"
    /\ inv' = [i \in DOMAIN inv |->
                 IF inv[i].outcome = "running"
                 THEN [inv[i] EXCEPT !.outcome = "cancelled"]
                 ELSE inv[i]]
    /\ UNCHANGED <<adapter, orchVars, statVars>>

NextAdapter ==
    \/ \E i \in DOMAIN inv : CallReturns(i)
    \/ \E i \in DOMAIN inv : CallRaises(i)
    \/ \E i \in DOMAIN inv : ReturnElapsed(i)
    \/ ShutdownCancels

SpecAdapter == InitAdapter /\ [][NextAdapter]_vars
\* ------------------------------------------------------ derived quantities
Ended == pc \in {"done", "aborted"}
Slots == {<<k, i>> : k \in 1..batches, i \in 1..concurrent}
St(p, x) == slot[p][x[1]][x[2]].st
CountSt(p, st) == Cardinality({x \in Slots : St(p, x) = st})
Launched(p) == \E x \in Slots : St(p, x) # "none"
\* The provider's Result Set: its list in self.results, empty when it has none.
ResultSet(p) == IF Key(p) \in DOMAIN results THEN results[Key(p)] ELSE <<>>
Contains(s, v) == \E n \in 1..Len(s) : s[n] = v
Displayed(p) == \E n \in 1..Len(console) : console[n].provider = Key(p)
IndexOf(p) == CHOOSE i \in 1..Len(ProviderOrder) : ProviderOrder[i] = p
\* The elapsed values of all rounds of p, round after round, in task order.
AllSamples(p) ==
    [n \in 1..(concurrent * batches) |->
       slot[p][((n - 1) \div concurrent) + 1][((n - 1) % concurrent) + 1].elapsed]

\* Reference computations by counting, without sorting or folding.
CountLess(s, v) == Cardinality({i \in 1..Len(s) : s[i] < v})
CountLeq(s, v) == Cardinality({i \in 1..Len(s) : s[i] <= v})
Values(s) == {s[i] : i \in 1..Len(s)}
\* The value at 0-indexed position k of s in ascending order.
RankRef(s, k) == CHOOSE v \in Values(s) : CountLess(s, v) <= k /\ k < CountLeq(s, v)
RECURSIVE WeightedSum(_, _)
WeightedSum(s, vs) ==
    IF vs = {} THEN 0
    ELSE LET v == CHOOSE x \in vs : TRUE
         IN  v * (CountLeq(s, v) - CountLess(s, v)) + WeightedSum(s, vs \ {v})
SumRef(s) == WeightedSum(s, Values(s))
\* x is the quotient a / b
IsQuotient(x, a, b) == x[2] > 0 /\ x[1] * b = a * x[2]

\* ------------------------------------------------------------- properties
\* C1: once the run has ended, every invocation that succeeded in a round in
\* which a sibling invocation failed has its elapsed value in its provider's
\* Result Set.
C1_SiblingSamplesKept ==
    Ended =>
      \A p \in Prov : \A x \in Slots : \A y \in Slots :
        (x[1] = y[1] /\ St(p, x) = "ok" /\ St(p, y) = "fail")
          => Contains(ResultSet(p), slot[p][x[1]][x[2]].elapsed)

\* C2: round barrier.  An invocation of round k+1 exists only when every
\* invocation of round k has resolved, and the running benchmark counts round
\* k as complete (batch_num >= k) only when every invocation of it has resolved.
C2_RoundBarrier ==
    \A p \in Prov : \A k \in 1..batches :
      /\ (k < batches /\ \E i \in 1..concurrent : slot[p][k + 1][i].st # "none")
           => \A j \in 1..concurrent : Resolved(slot[p][k][j])
      /\ (pc \in {"batch", "gather"} /\ p = CurProv /\ batch_num >= k)
           => \A j \in 1..concurrent : Resolved(slot[p][k][j])

\* A second round has been launched after a first round of two invocations.
C2_Witness ==
    /\ concurrent = 2
    /\ pc = "gather"
    /\ batch_num = 1
    /\ \A i \in 1..concurrent : CurRound[i].st = "running"
    /\ \A j \in 1..concurrent : slot[CurProv][1][j].st = "ok"

\* C3: provider runs are never interleaved.  While an invocation of one
\* provider is unresolved no other provider has an invocation in flight, and
\* once a provider has launched an invocation every selected provider before
\* it has all its rounds launched and resolved.
C3_NoInterleaving ==
    \A a \in Prov : \A b \in Prov \ {a} :
      /\ (\E x \in Slots : St(b, x) = "running")
           => \A y \in Slots : St(a, y) # "running"
      /\ (Launched(b) /\ a \in providers /\ IndexOf(a) < IndexOf(b))
           => \A y \in Slots : Resolved(slot[a][y[1]][y[2]])

\* A later provider has invocations in flight after an earlier one ran.
C3_Witness ==
    \E a \in providers : \E b \in providers :
      /\ IndexOf(a) < IndexOf(b)
      /\ Launched(a)
      /\ \E x \in Slots : St(b, x) = "running"

\* C4: once the run has ended, a provider that ran has concurrency * batches
\* samples minus one per failed invocation.
C4_SampleCount ==
    Ended =>
      \A p \in Prov :
        Launched(p) =>
          Len(ResultSet(p)) = concurrent * batches - CountSt(p, "fail")

C6_MissingCredentialSkipped ==
    \A p \in providers \ env :
      /\ ~Launched(p)
      /\ raisedBy # p
      /\ Ended => (p \in warned /\ ResultSet(p) = <<>>)

\* C7: a provider named in the iteration table, the summary table, the
\* comparison or the snapshot has at least one successful invocation and a
\* non-empty Result Set.
Appears(k) ==
    \/ Contains(table_columns, k)
    \/ \E n \in 1..Len(summary_rows) : summary_rows[n].provider = k
    \/ \E n \in 1..Len(comparison_lines) :
         k \in {comparison_lines[n].provider, comparison_lines[n].base_provider}
    \/ \E n \in 1..Len(files) :
         k \in DOMAIN files[n].raw_times \cup DOMAIN files[n].statistics
C7_ZeroSampleProviderAbsent ==
    \A p \in Prov :
      Appears(Key(p)) => (CountSt(p, "ok") > 0 /\ ResultSet(p) # <<>>)

\* A snapshot was written while a selected provider ended without samples.
C7_Witness ==
    /\ pc = "done"
    /\ files # <<>>
    /\ \E p \in providers : CountSt(p, "ok") = 0 /\ ~Appears(Key(p))
    /\ \E q \in providers : Appears(Key(q))

\* C8: in the snapshot, the statistics of a provider all of whose invocations
\* succeeded are those of the samples of all its rounds together: min and max
\* are the smallest and the largest of them, mean is their sum over their
\* number, and median is the middle one or the mean of the two middle ones.
C8_StatsOverAllRounds ==
    \A n \in 1..Len(files) : \A p \in Prov :
      (Key(p) \in DOMAIN files[n].statistics)
        => LET st == files[n].statistics[Key(p)]
               all == AllSamples(p)
               N == Len(all)
           IN  /\ CountSt(p, "ok") = N
               /\ st.min[2] = 1 /\ st.min[1] \in Values(all)
               /\ \A v \in Values(all) : st.min[1] <= v
               /\ st.max[2] = 1 /\ st.max[1] \in Values(all)
               /\ \A v \in Values(all) : v <= st.max[1]
               /\ IsQuotient(st.mean, SumRef(all), N)
               /\ IF N % 2 = 1
                  THEN IsQuotient(st.median, RankRef(all, N \div 2), 1)
                  ELSE IsQuotient(st.median,
                                  RankRef(all, (N \div 2) - 1) + RankRef(all, N \div 2), 2)

\* A provider ran two rounds of two whose samples differ between the rounds.
C8_Witness ==
    /\ files # <<>>
    /\ concurrent = 2
    /\ batches = 2
    /\ \E p \in Prov :
         /\ Key(p) \in DOMAIN files[1].statistics
         /\ slot[p][1][1].elapsed # slot[p][2][1].elapsed
         /\ files[1].statistics[Key(p)].min # files[1].statistics[Key(p)].max

\* floor(n * q / 100), as the one integer i with 100 i <= n q < 100 (i + 1).
FloorRef(n, q) == CHOOSE i \in 0..n : 100 * i <= n * q /\ n * q < 100 * (i + 1)

\* C9: for a non-empty list of length n, p95 and p99 are the elements at the
\* 0-indexed positions floor(n * 0.95) and floor(n * 0.99) of the ascending
\* order, and both positions lie in 0..n-1.
C9_PercentileIndex ==
    (statistics # <<>> /\ samples # <<>>)
      => LET n == Len(samples)
             st == statistics[1]
         IN  /\ PercentileIndex(n, 95) \in 0..(n - 1)
             /\ PercentileIndex(n, 99) \in 0..(n - 1)
             /\ PercentileIndex(n, 95) = FloorRef(n, 95)
             /\ PercentileIndex(n, 99) = FloorRef(n, 99)
             /\ st.p95 = FromInt(RankRef(samples, FloorRef(n, 95)))
             /\ st.p99 = FromInt(RankRef(samples, FloorRef(n, 99)))

\* Statistics of a list long enough that p95, p99 and max are three
\* different elements.
C9_Witness ==
    /\ statistics # <<>>
    /\ Len(samples) > 100
    /\ statistics[1].p95 # statistics[1].p99
    /\ statistics[1].p99 # statistics[1].max
    /\ samples # SortedAsc(samples)

\* C10: for the empty list calculate_stats returns exactly the seven fields
\* mean, median, min, max, std_dev, p95, p99, each 0.
C10_EmptyStatsAllZero ==
    (statistics # <<>> /\ samples = <<>>)
      => /\ DOMAIN statistics[1] =
              {"mean", "median", "min", "max", "std_dev", "p95", "p99"}
         /\ \A f \in DOMAIN statistics[1] : statistics[1][f] = FromInt(0)

\* calculate_stats has returned for the empty list.
C10_Witness == statistics # <<>> /\ samples = <<>>

\* The providers with a column in the iteration table, and the sum of the
\* samples of all slots of a provider (its mean times concurrency * batches).
Reported == {p \in Prov : Contains(table_columns, Key(p))}
RefSum(p) == SumRef(AllSamples(p))

\* C11: when the run is done with at least two reported providers (each has
\* concurrency * batches samples, so means compare as sums), the comparison
\* has one baseline, a provider of minimum mean and of mean > 0, and exactly
\* one line for every other reported provider, with factor = mean / baseline
\* mean >= 1 and percent = (mean - baseline mean) / baseline mean * 100 >= 0
\* (the values before they are formatted); with fewer there is no comparison.
C11_PairwiseComparison ==
    pc = "done" =>
      IF Cardinality(Reported) >= 2
      THEN \E b \in Reported :
             /\ RefSum(b) > 0
             /\ \A q \in Reported :
                  RefSum(b) <= RefSum(q) /\ CountSt(q, "ok") = CountSt(b, "ok")
             /\ Len(comparison_lines) = Cardinality(Reported) - 1
             /\ \A q \in Reported \ {b} :
                  \E n \in 1..Len(comparison_lines) :
                    LET line == comparison_lines[n]
                    IN  /\ line.provider = Key(q)
                        /\ line.base_provider = Key(b)
                        /\ IsQuotient(line.factor, RefSum(q), RefSum(b))
                        /\ line.factor[1] >= line.factor[2]
                        /\ IsQuotient(line.percent,
                                      (RefSum(q) - RefSum(b)) * 100, RefSum(b))
                        /\ line.percent[1] >= 0
      ELSE comparison_lines = <<>>

\* Three providers are compared, the baseline is not the first of them and
\* some provider is slower than the baseline.
C11_Witness ==
    /\ pc = "done"
    /\ Len(comparison_lines) = 2
    /\ comparison_lines[1].base_provider # table_columns[1]
    /\ \E n \in 1..Len(comparison_lines) : comparison_lines[n].factor # FromInt(1)

CountGreater(s, v) == Cardinality({i \in 1..Len(s) : s[i] > v})
CountGeq(s, v) == Cardinality({i \in 1..Len(s) : s[i] >= v})

\* C12: the iteration table has concurrency * batches rows of one cell per
\* reported provider; the cell of rank i (0-indexed) is the provider's i-th
\* slowest sample (fewer than i + 1 samples are greater, at least i + 1 are
\* greater or equal) when it has more than i samples, else the placeholder.
C12_IterationTableByRank ==
    (pc = "done" /\ files # <<>>) =>
      /\ Len(table_rows) = concurrent * batches
      /\ table_columns = Keys(results)
      /\ \A i \in 1..Len(table_rows) :
           /\ Len(table_rows[i]) = Len(table_columns)
           /\ \A c \in 1..Len(table_columns) :
                LET s == results[table_columns[c]]
                    cell == table_rows[i][c]
                IN  IF Len(s) > i - 1
                    THEN /\ Len(cell) = 1
                         /\ cell[1] \in Values(s)
                         /\ CountGreater(s, cell[1]) <= i - 1
                         /\ i - 1 < CountGeq(s, cell[1])
                    ELSE cell = <<>>

\* The table shows a provider whose samples were collected in ascending order.
C12_Witness ==
    /\ pc = "done"
    /\ Len(table_rows) >= 2
    /\ \E c \in 1..Len(table_columns) :
         LET s == results[table_columns[c]]
         IN  /\ s[1] < s[2]
             /\ table_rows[1][c] = <<s[2]>>

\* C13: display_provider_results, calculate_stats and the tables leave a
\* provider's Result Set as it was collected, in content and order, in
\* self.results and in the snapshot; and the mean and median computed when
\* the provider was displayed equal those computed for the summary table and
\* for the snapshot after the tables were built.
C13_ReportLeavesResultSet ==
    /\ \A p \in Prov :
         (Key(p) \in DOMAIN results /\ results[Key(p)] # <<>>)
           => results[Key(p)] = AllSamples(p)
    /\ \A n \in 1..Len(files) : \A p \in Prov :
         (Key(p) \in DOMAIN files[n].raw_times)
           => /\ files[n].raw_times[Key(p)] = AllSamples(p)
              /\ \A d \in 1..Len(console) :
                   (console[d].provider = Key(p))
                     => /\ console[d].mean = files[n].statistics[Key(p)].mean
                        /\ console[d].median = files[n].statistics[Key(p)].median
                        /\ \A r \in 1..Len(summary_rows) :
                             (summary_rows[r].provider = Key(p))
                               => /\ summary_rows[r].mean = console[d].mean
                                  /\ summary_rows[r].median = console[d].median

\* A snapshot holds a Result Set that was collected in ascending order, after
\* it was displayed, tabulated and summarised in descending order.
C13_Witness ==
    /\ pc = "done"
    /\ \E p \in Prov :
         /\ Key(p) \in DOMAIN results
         /\ Displayed(p)
         /\ Len(results[Key(p)]) >= 2
         /\ results[Key(p)][1] < results[Key(p)][2]
         /\ files[1].raw_times[Key(p)] = results[Key(p)]

\* Position in a provider's list of the sample of round k that is j-th of its
\* round.
PosOf(k, j) == (k - 1) * concurrent + j
\* C14 as stated: the samples of a round stand in the list in the order in
\* which their invocations completed.  Stated of the round just gathered and
\* of `times`, the list that becomes the provider's Result Set.
C14_CompletionOrder ==
    (pc = "batch" /\ batch_num >= 1 /\ completion # <<>>)
      => \A j \in 1..Len(completion) :
           times[PosOf(batch_num, j)] = slot[CurProv][batch_num][completion[j]].elapsed

\* C14 as amended: the samples of each round stand in the order in which
\* their invocations were launched, whatever the order of completion, rounds
\* in round order; this holds of `times` after every round of the running
\* benchmark and of the Result Set.
C14_LaunchOrder ==
    /\ pc \in {"batch", "gather"}
         => /\ Len(times) = batch_num * concurrent
            /\ \A x \in Slots :
                 x[1] <= batch_num
                   => times[PosOf(x[1], x[2])] = slot[CurProv][x[1]][x[2]].elapsed
    /\ \A p \in Prov :
         (Key(p) \in DOMAIN results /\ results[Key(p)] # <<>>)
           => /\ Len(results[Key(p)]) = concurrent * batches
              /\ \A x \in Slots :
                   results[Key(p)][PosOf(x[1], x[2])] = slot[p][x[1]][x[2]].elapsed

\* A round was gathered whose second invocation finished first, with a
\* different elapsed value than the first.
C14_Witness ==
    /\ pc = "batch"
    /\ batch_num >= 1
    /\ completion = <<2, 1>>
    /\ slot[CurProv][batch_num][1].elapsed # slot[CurProv][batch_num][2].elapsed
    /\ times[PosOf(batch_num, 1)] = slot[CurProv][batch_num][1].elapsed

\* C15: no launched invocation is ever cancelled: each runs until it returns
\* or raises by itself, also when a sibling of its round has raised.
C15_NeverCancelled ==
    \A p \in Prov : \A x \in Slots : St(p, x) # "cancelled"

LifecycleStages == <<"provision", "ready", "execute", "teardown">>

C17_SandboxReleased ==
    \A i \in DOMAIN inv : inv[i].outcome # "running" => ~inv[i].acquired

\* Every invocation launched so far has resolved by its own return or raise.
AllResolvedByThemselves ==
    \A p \in Prov : \A x \in Slots : St(p, x) \in {"none", "ok", "fail"}

\* C18: a run that has ended with every launched invocation resolved by
\* success or failure and at least one success of a selected provider has
\* written the snapshot exactly once; no snapshot exists before the last
\* selected provider's run is over, and never more than one.
C18_SnapshotOnceWhenSomeSuccess ==
    /\ (Ended /\ AllResolvedByThemselves
          /\ \E p \in providers : CountSt(p, "ok") > 0)
         => Len(files) = 1
    /\ Len(files) > 0 => pc = "done"
    /\ Len(files) <= 1

\* C19: in every snapshot written, raw_times and statistics have the same
\* provider keys, raw_times is the final self.results, and statistics[p] is
\* calculate_stats of the raw_times[p] written.
C19_SnapshotStatsOfRawTimes ==
    \A n \in 1..Len(files) :
      /\ DOMAIN files[n].raw_times = DOMAIN files[n].statistics
      /\ files[n].raw_times = results
      /\ \A k \in DOMAIN files[n].raw_times :
           /\ files[n].raw_times[k] # <<>>
           /\ files[n].statistics[k] = calculate_stats(files[n].raw_times[k])

\* A snapshot was written in a run where a selected provider produced no
\* sample and another produced samples over two rounds.
C19_Witness ==
    /\ Len(files) = 1
    /\ \E p \in providers : Key(p) \notin DOMAIN files[1].raw_times
    /\ \E k \in DOMAIN files[1].raw_times : Len(files[1].raw_times[k]) > concurrent

\* C20: for a non-empty list, min <= median <= max, min <= mean <= max,
\* min <= p95 <= p99 <= max, and min, max, p95, p99 are elements of the list.
C20_StatsOrdered ==
    (statistics # <<>> /\ samples # <<>>)
      => LET st == statistics[1]
             elems == {FromInt(v) : v \in Values(samples)}
         IN  /\ RatLeq(st.min, st.median) /\ RatLeq(st.median, st.max)
             /\ RatLeq(st.min, st.mean) /\ RatLeq(st.mean, st.max)
             /\ RatLeq(st.min, st.p95) /\ RatLeq(st.p95, st.p99)
             /\ RatLeq(st.p99, st.max)
             /\ st.min \in elems /\ st.max \in elems
             /\ st.p95 \in elems /\ st.p99 \in elems

\* Statistics of an unsorted list of even length whose median lies strictly
\* between two elements and differs from the mean.
C20_Witness ==
    /\ statistics # <<>>
    /\ samples # <<>>
    /\ Len(samples) % 2 = 0
    /\ samples # SortedAsc(samples)
    /\ statistics[1].min # statistics[1].max
    /\ statistics[1].median # statistics[1].mean
    /\ statistics[1].median \notin {FromInt(v) : v \in Values(samples)}

=============================================================================
